---- MODULE Spec2Model ----
(***************************************************************************)
(* SM2 public-key encryption core of GmSSL (src/src/sm2_enc.c): the core   *)
(* encrypt / fixed-length encrypt / decrypt routines, the DER codec of the *)
(* ciphertext and the public one-shot API, as a state machine.             *)
(*                                                                         *)
(* Byte strings are sequences over 0..255.  The curve arithmetic, the KDF, *)
(* SM3 and the ASN.1 helpers live outside sm2_enc.c: they are modelled by  *)
(* small stand-ins that keep the properties the callers rely on (a cyclic  *)
(* group of prime order, deterministic KDF and hash, standard DER rules).  *)
(***************************************************************************)
EXTENDS Integers, Sequences, FiniteSets, TLC

(***************************************************************************)
(* Sizes                                                                   *)
(***************************************************************************)

\* gmssl/sm2.h: SM2_MIN_PLAINTEXT_SIZE, SM2_MAX_PLAINTEXT_SIZE
SM2_MIN_PLAINTEXT_SIZE == 1
SM2_MAX_PLAINTEXT_SIZE == 255

\* gmssl/sm2.h: the three admissible DER lengths of (INTEGER x, INTEGER y)
SM2_ciphertext_compact_point_size == 68
SM2_ciphertext_typical_point_size == 69
SM2_ciphertext_max_point_size == 70

\* bytes of one affine coordinate, of an SM3 digest, of x2 || y2
CoordLen == 32
HashLen == 32
PointLen == 64

\* unsigned int trys = 200
InitialTrys == 200

\* order of the stand-in group (sm2_z256_order()); scalars are 0..Order-1
Order == 7

\* the shared point whose KDF output starts with ZeroRun zero bytes
ZeroIdx == 5
ZeroRun == 2

\* how many all-zero-keystream retries one call is followed through
MaxZeroRetries == 2

(***************************************************************************)
(* Bytes                                                                   *)
(***************************************************************************)

Byte == 0..255

\* the function f on 1..n as a sequence in TLC's tuple form
AsSeq(f, n) == SubSeq(f, 1, n)

Fill(b, n) == AsSeq([i \in 1..n |-> b], n)

RECURSIVE XorBits(_, _, _)
XorBits(a, b, n) ==
    IF n = 0 THEN 0
    ELSE ((a + b) % 2) + 2 * XorBits(a \div 2, b \div 2, n - 1)

\* the table of a xor b, at [a + 1][b + 1]
XorTable ==
    AsSeq([a \in 1..256 |-> AsSeq([b \in 1..256 |-> XorBits(a - 1, b - 1, 8)], 256)], 256)

XorByte(a, b) == XorTable[a + 1][b + 1]

\* gmssl_memxor(r, a, b, len) on the first len bytes
gmssl_memxor(a, b, len) == AsSeq([i \in 1..len |-> XorByte(a[i], b[i])], len)

\* memcpy(dst + off, src, Len(src)): dst with src written from offset off
MemWrite(dst, off, src) ==
    AsSeq([i \in 1..Len(dst) |->
             IF i > off /\ i <= off + Len(src) THEN src[i - off] ELSE dst[i]],
          Len(dst))

\* sum of s[lo..hi] and of i * s[i] over lo..hi, modulo 256, by halving
RECURSIVE SumBytes(_, _, _)
SumBytes(s, lo, hi) ==
    IF lo > hi THEN 0
    ELSE IF lo = hi THEN s[lo]
    ELSE LET mid == (lo + hi) \div 2
         IN  (SumBytes(s, lo, mid) + SumBytes(s, mid + 1, hi)) % 256

RECURSIVE WSumBytes(_, _, _)
WSumBytes(s, lo, hi) ==
    IF lo > hi THEN 0
    ELSE IF lo = hi THEN (lo * s[lo]) % 256
    ELSE LET mid == (lo + hi) \div 2
         IN  (WSumBytes(s, lo, mid) + WSumBytes(s, mid + 1, hi)) % 256

FlipBit0(b) == IF b % 2 = 0 THEN b + 1 ELSE b - 1

(***************************************************************************)
(* all_zero                                                                *)
(***************************************************************************)

all_zero(buf, len) == \A i \in 1..len : buf[i] = 0

(***************************************************************************)
(* Curve stand-in: the points i*G, i in 1..Order-1, with fixed coordinates *)
(* that cover the DER cases (top bit set or clear, leading zero bytes).    *)
(***************************************************************************)

Scalars == 0..(Order - 1)
NonZeroScalars == 1..(Order - 1)

XHead == << <<18, 52>>, <<128, 1>>, <<154, 7>>, <<0, 133>>, <<0, 18>>, <<0, 0>> >>
YHead == << <<86, 120>>, <<127, 255>>, <<255, 3>>, <<69, 9>>, <<35, 0>>, <<195, 0>> >>

HeadIdx(i) == ((i - 1) % 6) + 1

CoordX(i) == XHead[HeadIdx(i)] \o Fill(i, CoordLen - 2)
CoordY(i) == YHead[HeadIdx(i)] \o Fill(i + 16, CoordLen - 2)

\* SM2_POINT of i*G
AffinePoint(i) == [x |-> CoordX(i), y |-> CoordY(i)]

ZeroCoord == Fill(0, CoordLen)

\* sm2_point_is_on_curve / sm2_z256_point_is_on_curve on affine bytes
CurveIndex(x, y) == {i \in NonZeroScalars : CoordX(i) = x /\ CoordY(i) = y}
sm2_point_is_on_curve(P) == CurveIndex(P.x, P.y) # {}

\* SM2_Z256_POINT: the internal form.  "curve" tells a point of the group
\* (idx its discrete log, 0 the point at infinity) from raw coordinates.
ClearedZ256Point == [curve |-> FALSE, idx |-> 0, x |-> ZeroCoord, y |-> ZeroCoord]
UnsetZ256Point == [curve |-> FALSE, idx |-> 0, x |-> <<>>, y |-> <<>>]

sm2_z256_point_from_bytes(P) ==
    IF sm2_point_is_on_curve(P)
    THEN [curve |-> TRUE, idx |-> CHOOSE i \in CurveIndex(P.x, P.y) : TRUE,
          x |-> P.x, y |-> P.y]
    ELSE [curve |-> FALSE, idx |-> 0, x |-> P.x, y |-> P.y]

sm2_z256_point_is_on_curve(Q) == Q.curve

GroupPoint(i) ==
    IF i = 0 THEN [curve |-> TRUE, idx |-> 0, x |-> ZeroCoord, y |-> ZeroCoord]
    ELSE [curve |-> TRUE, idx |-> i, x |-> CoordX(i), y |-> CoordY(i)]

sm2_z256_point_mul_generator(k) == GroupPoint(k % Order)

\* k * Q; off the curve the arithmetic still runs and yields some point that
\* is determined by k and Q (here: Q itself)
sm2_z256_point_mul(k, Q) ==
    IF Q.curve THEN GroupPoint((k * Q.idx) % Order) ELSE Q

sm2_z256_point_to_bytes(Q) == [x |-> Q.x, y |-> Q.y]

PointBytes(P) == P.x \o P.y

(***************************************************************************)
(* KDF and SM3 stand-ins                                                   *)
(***************************************************************************)

KdfSeed(seed) == (seed[1] + seed[2] + seed[CoordLen] + seed[PointLen]) % 256

\* sm2_kdf(in, 64, outlen, out): deterministic in the seed, prefix-consistent
ZeroSeed == PointBytes(AffinePoint(ZeroIdx))

sm2_kdf(seed, outlen) ==
    IF seed = ZeroSeed
    THEN AsSeq([j \in 1..outlen |->
                  IF j <= ZeroRun THEN 0 ELSE 1 + ((37 * KdfSeed(seed) + 11 * j) % 255)],
               outlen)
    ELSE AsSeq([j \in 1..outlen |-> 1 + ((37 * KdfSeed(seed) + 11 * j) % 255)], outlen)

\* sm3_init; sm3_update...; sm3_finish over the concatenated input
sm3_digest(data) ==
    << Len(data) % 256, (Len(data) \div 256) % 256,
       SumBytes(data, 1, Len(data)), WSumBytes(data, 1, Len(data)) >>
    \o Fill(90, HashLen - 4)

(***************************************************************************)
(* ASN.1 DER helpers (gmssl/asn1.h).  A decoder takes the unread input and *)
(* returns ret (1 found, 0 absent, -1 error), the payload d and the input  *)
(* that is left: the C functions advance *in and shrink *inlen.            *)
(***************************************************************************)

ASN1_TAG_INTEGER == 2
ASN1_TAG_OCTET_STRING == 4
ASN1_TAG_SEQUENCE == 48

Drop(s, n) == SubSeq(s, n + 1, Len(s))
Take(s, n) == SubSeq(s, 1, n)

asn1_length_to_der(len) ==
    IF len < 128 THEN <<len>>
    ELSE IF len < 256 THEN <<129, len>>
    ELSE <<130, len \div 256, len % 256>>

RECURSIVE BigEndian(_, _)
BigEndian(s, n) == IF n = 0 THEN 0 ELSE 256 * BigEndian(s, n - 1) + s[n]

DerFail(in) == [ret |-> -1, d |-> <<>>, rest |-> in]
DerAbsent(in) == [ret |-> 0, d |-> <<>>, rest |-> in]

\* the length octets at the head of in: [ret, len, rest]
asn1_length_from_der(in) ==
    IF Len(in) = 0 THEN [ret |-> -1, len |-> 0, rest |-> in]
    ELSE IF in[1] < 128
    THEN IF Len(in) - 1 < in[1] THEN [ret |-> -1, len |-> 0, rest |-> in]
         ELSE [ret |-> 1, len |-> in[1], rest |-> Drop(in, 1)]
    ELSE LET nbytes == in[1] - 128
             len == BigEndian(Drop(in, 1), nbytes)
         IN  IF nbytes < 1 \/ nbytes > 2 \/ Len(in) - 1 < nbytes
             THEN [ret |-> -1, len |-> 0, rest |-> in]
             ELSE IF Len(in) - 1 - nbytes < len
             THEN [ret |-> -1, len |-> 0, rest |-> in]
             ELSE [ret |-> 1, len |-> len, rest |-> Drop(in, 1 + nbytes)]

asn1_type_to_der(tag, d) == <<tag>> \o asn1_length_to_der(Len(d)) \o d

asn1_type_from_der(tag, in) ==
    IF Len(in) = 0 \/ in[1] # tag THEN DerAbsent(in)
    ELSE LET l == asn1_length_from_der(Drop(in, 1))
         IN  IF l.ret # 1 THEN DerFail(in)
             ELSE [ret |-> 1, d |-> Take(l.rest, l.len), rest |-> Drop(l.rest, l.len)]

RECURSIVE StripLeadingZeros(_)
StripLeadingZeros(a) ==
    IF Len(a) > 1 /\ a[1] = 0 THEN StripLeadingZeros(Tail(a)) ELSE a

\* INTEGER of the unsigned big-endian a: leading zeros stripped, a 0x00 sign
\* byte when the top bit of the first byte left is set
asn1_integer_to_der(a) ==
    LET s == StripLeadingZeros(a)
    IN  asn1_type_to_der(ASN1_TAG_INTEGER, IF s[1] >= 128 THEN <<0>> \o s ELSE s)

\* the payload without its sign byte; negative, empty and non-minimal
\* INTEGERs are errors
asn1_integer_from_der(in) ==
    LET t == asn1_type_from_der(ASN1_TAG_INTEGER, in)
    IN  IF t.ret # 1 THEN t
        ELSE IF Len(t.d) = 0 \/ t.d[1] >= 128 THEN DerFail(in)
        ELSE IF t.d[1] = 0 /\ Len(t.d) > 1
        THEN IF t.d[2] < 128 THEN DerFail(in)
             ELSE [ret |-> 1, d |-> Tail(t.d), rest |-> t.rest]
        ELSE t

asn1_octet_string_to_der(d) == asn1_type_to_der(ASN1_TAG_OCTET_STRING, d)
asn1_octet_string_from_der(in) == asn1_type_from_der(ASN1_TAG_OCTET_STRING, in)

asn1_sequence_header_to_der(len) == <<ASN1_TAG_SEQUENCE>> \o asn1_length_to_der(len)
asn1_sequence_from_der(in) == asn1_type_from_der(ASN1_TAG_SEQUENCE, in)

asn1_length_le(len, max) == IF len <= max THEN 1 ELSE -1
asn1_length_is_zero(len) == IF len = 0 THEN 1 ELSE -1
asn1_check(cond) == IF cond THEN 1 ELSE -1

(***************************************************************************)
(* SM2_CIPHERTEXT and its DER codec                                        *)
(***************************************************************************)

\* struct SM2_CIPHERTEXT: point (x, y), hash, ciphertext_size and the
\* ciphertext array of SM2_MAX_PLAINTEXT_SIZE bytes
ZeroCiphertext ==
    [x |-> ZeroCoord, y |-> ZeroCoord, hash |-> Fill(0, HashLen),
     ciphertext_size |-> 0, ciphertext |-> Fill(0, SM2_MAX_PLAINTEXT_SIZE)]

\* an SM2_CIPHERTEXT on the stack that nothing has written yet
StackCiphertext ==
    [x |-> Fill(204, CoordLen), y |-> Fill(204, CoordLen), hash |-> Fill(204, HashLen),
     ciphertext_size |-> 204, ciphertext |-> Fill(204, SM2_MAX_PLAINTEXT_SIZE)]

Body(C) == Take(C.ciphertext, C.ciphertext_size)

\* sm2_ciphertext_to_der: the bytes appended to *out (and counted in *outlen)
sm2_ciphertext_to_der(C) ==
    LET content == asn1_integer_to_der(C.x) \o asn1_integer_to_der(C.y)
                   \o asn1_octet_string_to_der(C.hash)
                   \o asn1_octet_string_to_der(Body(C))
    IN  asn1_sequence_header_to_der(Len(content)) \o content

\* a cast to a type one bit too narrow
CastUint8_narrow(n) == n % 128

\* (uint8_t)clen
CastUint8(n) == n % 256

\* (uint32_t)inlen: every length of the model is below 2^31, where the cast
\* changes nothing
CastUint32(n) == n

\* sm2_ciphertext_from_der(C, &in, &inlen): [ret, C, rest]; C is the caller's
\* object as the call leaves it, rest the input left in *in / *inlen
sm2_ciphertext_from_der(C, in) ==
    LET s == asn1_sequence_from_der(in)
        x == asn1_integer_from_der(s.d)
        y == asn1_integer_from_der(x.rest)
        h == asn1_octet_string_from_der(y.rest)
        c == asn1_octet_string_from_der(h.rest)
        Cxy == [ZeroCiphertext EXCEPT
                  !.x = MemWrite(ZeroCoord, CoordLen - Len(x.d), x.d),
                  !.y = MemWrite(ZeroCoord, CoordLen - Len(y.d), y.d)]
    IN  IF s.ret # 1 THEN [ret |-> s.ret, C |-> C, rest |-> s.rest]
        ELSE IF x.ret # 1 \/ asn1_length_le(Len(x.d), CoordLen) # 1
        THEN [ret |-> -1, C |-> C, rest |-> s.rest]
        ELSE IF y.ret # 1 \/ asn1_length_le(Len(y.d), CoordLen) # 1
        THEN [ret |-> -1, C |-> C, rest |-> s.rest]
        ELSE IF h.ret # 1 \/ asn1_check(Len(h.d) = HashLen) # 1
        THEN [ret |-> -1, C |-> C, rest |-> s.rest]
        ELSE IF c.ret # 1 \/ asn1_length_le(Len(c.d), SM2_MAX_PLAINTEXT_SIZE) # 1
        THEN [ret |-> -1, C |-> C, rest |-> s.rest]
        ELSE IF asn1_length_is_zero(Len(c.rest)) # 1
        THEN [ret |-> -1, C |-> C, rest |-> s.rest]
        ELSE IF sm2_point_is_on_curve([x |-> Cxy.x, y |-> Cxy.y]) # TRUE
        THEN [ret |-> -1, C |-> Cxy, rest |-> s.rest]
        ELSE [ret |-> 1,
              C |-> [Cxy EXCEPT !.hash = h.d,
                                !.ciphertext = MemWrite(Cxy.ciphertext, 0, c.d),
                                !.ciphertext_size = CastUint8(Len(c.d))],
              rest |-> s.rest]

(***************************************************************************)
(* Pieces of the core routines                                             *)
(***************************************************************************)

\* a scalar or a length that nothing has written yet
Unwritten == 0 - 1

\* gmssl_secure_clear of a scalar, of a point, of x2y2
ClearedScalar == 0
ClearedX2Y2 == Fill(0, PointLen)

\* SM2_KEY of the key pair (d, d * G)
KeyPair(d) == [private_key |-> d, public_key |-> AffinePoint(d)]

\* the check of inlen without its upper bound
PlaintextSizeOk_nomax(inlen) == SM2_MIN_PLAINTEXT_SIZE <= inlen

\* the check of inlen at the head of sm2_do_encrypt / sm2_do_encrypt_fixlen
PlaintextSizeOk(inlen) ==
    SM2_MIN_PLAINTEXT_SIZE <= inlen /\ inlen <= SM2_MAX_PLAINTEXT_SIZE

\* the switch on point_size
PointSizeOk(ps) ==
    ps \in {SM2_ciphertext_compact_point_size,
            SM2_ciphertext_typical_point_size,
            SM2_ciphertext_max_point_size}

\* size_t len = 0; asn1_integer_to_der(x, 32, NULL, &len);
\* asn1_integer_to_der(y, 32, NULL, &len);
PointDerLen(Cp) == Len(asn1_integer_to_der(Cp.x)) + Len(asn1_integer_to_der(Cp.y))

\* a mismatch that costs two tries
TrysAfterMismatch_two(t) == t - 2

\* trys--
TrysAfterMismatch(t) == t - 1

\* the comparison with > in place of !=
FixlenMismatch_gt(Cp, ps) == PointDerLen(Cp) > ps

\* if (len != point_size): the attempt is given up
FixlenMismatch(Cp, ps) == PointDerLen(Cp) # ps

\* sm2_do_encrypt*: sm3_update(x2y2, 32); sm3_update(in); sm3_update(x2y2 + 32, 32)
EncTagInput(x2y2, M) == Take(x2y2, CoordLen) \o M \o Drop(x2y2, CoordLen)

\* the locals k, kP, x2y2 as the wipe at the end of the encrypt routines
\* leaves them
EncryptWipe(l) ==
    [k |-> ClearedScalar, kP |-> ClearedZ256Point, x2y2 |-> ClearedX2Y2]

\* the locals at "goto retry" and at the return on an RNG failure: nothing
\* is cleared there
EncryptKeep(l) == l

\* the locals at the return taken when trys has run out: only k is cleared
FixlenGiveUpWipe(l) == [l EXCEPT !.k = ClearedScalar]

\* out->point written by the first attempt only
WithPoint_first(Cp, k) ==
    LET Q == sm2_z256_point_to_bytes(sm2_z256_point_mul_generator(k))
    IN  IF Cp.x = Fill(204, CoordLen) THEN [Cp EXCEPT !.x = Q.x, !.y = Q.y] ELSE Cp

\* C1 = k * G written to out->point
WithPoint(Cp, k) ==
    LET Q == sm2_z256_point_to_bytes(sm2_z256_point_mul_generator(k))
    IN  [Cp EXCEPT !.x = Q.x, !.y = Q.y]

\* k * P and x2y2 for the public key P
SharedPoint(k, K) ==
    sm2_z256_point_mul(k, sm2_z256_point_from_bytes(K.public_key))
SharedBytes(k, K) == PointBytes(sm2_z256_point_to_bytes(SharedPoint(k, K)))

\* sm2_kdf(x2y2, 64, inlen, out->ciphertext)
WithKeystream(Cp, x2y2, inlen) ==
    [Cp EXCEPT !.ciphertext = MemWrite(@, 0, sm2_kdf(x2y2, inlen))]

\* C2 = M xor t, ciphertext_size = (uint32_t)inlen, C3 = Hash(x2 || M || y2)
WithBodyAndTag(Cp, x2y2, M) ==
    [Cp EXCEPT !.ciphertext = MemWrite(@, 0, gmssl_memxor(@, M, Len(M))),
               !.ciphertext_size = CastUint32(Len(M)),
               !.hash = sm3_digest(EncTagInput(x2y2, M))]

\* the check of the unread input left out
DecodedAll_lax(r) == r.ret = 1

\* sm2_decrypt: the decoder must succeed and leave no input unread
DecodedAll(r) == r.ret = 1 /\ asn1_length_is_zero(Len(r.rest)) = 1

\* the on-curve check left out
DecryptPointOk_skipped(C1) == TRUE

\* sm2_do_decrypt: if (!sm2_z256_point_is_on_curve(C1)) return -1
DecryptPointOk(C1) == sm2_z256_point_is_on_curve(C1)

\* the message hashed after both coordinates
DecTagInput_swapped(x2y2, M) == x2y2 \o M

\* sm2_do_decrypt: sm3_update(x2y2, 32); sm3_update(out); sm3_update(x2y2 + 32, 32)
DecTagInput(x2y2, M) == Take(x2y2, CoordLen) \o M \o Drop(x2y2, CoordLen)

\* memcmp over too few bytes
TagMatches_short(stored, u) == Take(stored, 2) = Take(u, 2)

\* memcmp(in->hash, hash, sizeof(hash)) == 0
TagMatches(stored, u) == stored = u

\* the caller's *outlen after sm2_do_decrypt has passed the on-curve check:
\* written at line 239, which the all-zero keystream path never reaches
DecryptOutlen(size, zero, outlen0) == IF zero THEN outlen0 ELSE size

\* the wipe without the clearing of d
DecryptWipe_partial(l) == [l EXCEPT !.C1 = ClearedZ256Point, !.x2y2 = ClearedX2Y2]

\* the locals d, C1, x2y2 after the label end of sm2_do_decrypt
DecryptWipe(l) ==
    [d |-> ClearedScalar, C1 |-> ClearedZ256Point, x2y2 |-> ClearedX2Y2]

(***************************************************************************)
(* Inputs                                                                  *)
(***************************************************************************)

Keys == {3, 6}

MsgMax == AsSeq([i \in 1..SM2_MAX_PLAINTEXT_SIZE |-> i], SM2_MAX_PLAINTEXT_SIZE)
MsgOver == Fill(1, SM2_MAX_PLAINTEXT_SIZE + 1)
Plaintexts == {<<97>>, <<0, 255>>, MsgMax}
FixlenPlaintexts == {<<0, 255>>, MsgMax}
BadPlaintexts == {<<>>, MsgOver}
PointSizes == {SM2_ciphertext_compact_point_size, SM2_ciphertext_typical_point_size,
               SM2_ciphertext_max_point_size, SM2_ciphertext_max_point_size + 1}

\* in-memory ciphertexts handed to sm2_ciphertext_to_der: every point of the
\* group, bodies of the lengths where the DER length octets change
BodyLens == {0, 1, 127, 128, SM2_MAX_PLAINTEXT_SIZE}
WellFormedCiphertexts ==
    {[x |-> CoordX(i), y |-> CoordY(i), hash |-> Fill(165, HashLen),
      ciphertext_size |-> n,
      ciphertext |-> MemWrite(Fill(0, SM2_MAX_PLAINTEXT_SIZE), 0, Fill((n % 200) + 1, n))] :
        i \in NonZeroScalars, n \in BodyLens}

\* coordinate pairs that are not on the curve
OffCurvePoints(Cs) ==
    {[x |-> Cs.x, y |-> MemWrite(Cs.y, CoordLen - 1, <<FlipBit0(Cs.y[CoordLen])>>)],
     [x |-> ZeroCoord, y |-> ZeroCoord],
     [x |-> CoordX(1), y |-> CoordY(2)]}

\* the ciphertexts derived from Cs by tampering with one field
Tampered(Cs, v) ==
    CASE v = "valid" -> {Cs}
      [] v = "hash" -> {[Cs EXCEPT !.hash[1] = FlipBit0(@)]}
      [] v = "body" -> IF Cs.ciphertext_size = 0 THEN {}
                       ELSE {[Cs EXCEPT !.ciphertext[1] = FlipBit0(@)]}
      [] v = "point" -> {[Cs EXCEPT !.x = P.x, !.y = P.y] : P \in OffCurvePoints(Cs)}
      [] OTHER -> {}

StructVariants == {"valid", "hash", "body", "point"}

TrailingBytes == {<<0>>, <<48, 0>>}

\* a SEQUENCE of the given elements and whatever follows them inside it
SeqDer(x, y, h, c, extra) ==
    LET content == asn1_integer_to_der(x) \o asn1_integer_to_der(y)
                   \o asn1_octet_string_to_der(h) \o asn1_octet_string_to_der(c)
                   \o extra
    IN  asn1_sequence_header_to_der(Len(content)) \o content

\* the DER inputs derived from the encoding der of the ciphertext Cs
Wires(Cs, der, v) ==
    CASE v \in StructVariants -> {sm2_ciphertext_to_der(T) : T \in Tampered(Cs, v)}
      [] v = "trailing" -> {der \o s : s \in TrailingBytes}
      [] v = "null" -> {der}
      [] v = "truncated" -> {Take(der, Len(der) - 1)}
      [] v = "empty" -> {<<>>}
      [] v = "shorthash" -> {SeqDer(Cs.x, Cs.y, Take(Cs.hash, HashLen - 1), Body(Cs), <<>>)}
      [] v = "longx" -> {SeqDer(<<1>> \o Cs.x, Cs.y, Cs.hash, Body(Cs), <<>>)}
      [] v = "inner" -> {SeqDer(Cs.x, Cs.y, Cs.hash, Body(Cs), <<5, 0>>)}
      [] OTHER -> {}

WireVariants ==
    StructVariants \cup {"trailing", "truncated", "empty", "shorthash", "longx", "inner"}

(***************************************************************************)
(* State                                                                   *)
(***************************************************************************)

VARIABLES
    key,        \* the SM2_KEY of the run
    op,         \* the API routine that was called last
    pc,         \* "idle", a label inside the running routine, or "done"
    in,         \* the input bytes of the call (plaintext, or DER)
    point_size, \* the point_size argument of sm2_encrypt_fixlen
    C,          \* the SM2_CIPHERTEXT object the call works on
    loc,        \* the locals k, kP, x2y2 of the encrypt routines
    trys,       \* the local trys of sm2_do_encrypt_fixlen
    dec,        \* the locals d, C1, x2y2 of sm2_do_decrypt
    inrest,     \* the input a decoder has left unread (*in, *inlen)
    out,        \* the bytes the call has written to the caller's buffer
    outlen,     \* the caller's *outlen
    ret,        \* the return value of the call
    attempts,   \* how many k * G the call has computed
    zretries,   \* how many all-zero keystreams the call has met
    dmul,       \* what the call has multiplied by d: "none", "oncurve", "offcurve"
    Cpre,       \* the caller's SM2_CIPHERTEXT as it was when the call began
    variant,    \* how the input of a decoding call was derived
    sent,       \* the encoding call the input was derived from
    ctx,        \* the SM2_ENC_CTX of the streaming calls: buf[0 .. buf_size), buf_size, sm2_key
    ctxpre,     \* ctx as it was when the streaming call began
    st,         \* the streaming call made last: direction, routine, in, whether out is NULL
    chunks,     \* the pieces the streaming calls have accepted since init, in order
    calls,      \* how many update and finish calls were made since init
    planned     \* the encoding the caller feeds to the decrypt direction

streamvars == <<ctx, ctxpre, st, chunks, calls, planned>>

vars == <<key, op, pc, in, point_size, C, loc, trys, dec, inrest, out, outlen,
          ret, attempts, zretries, dmul, Cpre, variant, sent,
          ctx, ctxpre, st, chunks, calls, planned>>

UnsetLocals == [k |-> Unwritten, kP |-> UnsetZ256Point, x2y2 |-> <<>>]
UnsetDecLocals == [d |-> Unwritten, C1 |-> UnsetZ256Point, x2y2 |-> <<>>]
NothingSent == [op |-> "none", C |-> StackCiphertext, M |-> <<>>, retried |-> FALSE]

\* a chunk argument (in, inlen): in may be NULL
NullChunk == [null |-> TRUE, bytes |-> <<>>]
Chunk(b) == [null |-> FALSE, bytes |-> b]

\* an SM2_ENC_CTX that no init has written, and no streaming call yet
UnsetCtx ==
    [buf |-> <<>>, buf_size |-> Unwritten,
     sm2_key |-> [private_key |-> Unwritten, public_key |-> [x |-> <<>>, y |-> <<>>]]]
NoStreamCall == [dir |-> "none", fn |-> "none", in |-> NullChunk, outnull |-> FALSE]

Init ==
    /\ key \in {KeyPair(d) : d \in Keys}
    /\ op = "none"
    /\ pc = "idle"
    /\ in = <<>>
    /\ point_size = 0
    /\ C = StackCiphertext
    /\ loc = UnsetLocals
    /\ trys = InitialTrys
    /\ dec = UnsetDecLocals
    /\ inrest = <<>>
    /\ out = <<>>
    /\ outlen = Unwritten
    /\ ret = 0
    /\ attempts = 0
    /\ zretries = 0
    /\ dmul = "none"
    /\ Cpre = StackCiphertext
    /\ variant = "none"
    /\ sent = NothingSent
    /\ ctx = UnsetCtx
    /\ ctxpre = UnsetCtx
    /\ st = NoStreamCall
    /\ chunks = <<>>
    /\ calls = 0
    /\ planned = <<>>

\* a run is one encoding call and then, at most, one decoding call on what it
\* produced
CanCall == pc = "idle"

\* the caller holds a ciphertext and its encoding from a call that succeeded
Encoded == pc = "taken"

\* a fresh call: new stack frames, the caller's empty buffer and its *outlen
Fresh(o, input, ps, C0, v, snt) ==
    /\ op' = o
    /\ in' = input
    /\ point_size' = ps
    /\ Cpre' = C0
    /\ loc' = UnsetLocals
    /\ trys' = InitialTrys
    /\ dec' = UnsetDecLocals
    /\ attempts' = 0
    /\ zretries' = 0
    /\ dmul' = "none"
    /\ variant' = v
    /\ sent' = snt
    /\ UNCHANGED key

Return(r) == pc' = "done" /\ ret' = r

(***************************************************************************)
(* sm2_encrypt and sm2_do_encrypt                                          *)
(***************************************************************************)

\* sm2_encrypt up to the label retry of sm2_do_encrypt
sm2_encrypt_call ==
    /\ UNCHANGED streamvars
    /\ CanCall
    /\ \E M \in Plaintexts \cup BadPlaintexts, null \in BOOLEAN :
        /\ Fresh("sm2_encrypt", M, 0, StackCiphertext, "none", NothingSent)
        /\ C' = StackCiphertext /\ out' = <<>> /\ outlen' = Unwritten /\ inrest' = <<>>
        /\ IF null \/ Len(M) = 0 \/ ~PlaintextSizeOk(Len(M))
           THEN Return(-1)
           ELSE pc' = "retry" /\ ret' = 0

\* the tail shared by both encrypt routines, from k * P to the return, and
\* the DER encoding by the caller.  (The singleton quantifiers only name
\* intermediate values.)
EncryptTail(r, Cp) ==
    \E x2y2 \in {SharedBytes(r, key)} :
    \E Ct \in {WithKeystream(Cp, x2y2, Len(in))} :
    \E tried \in {[k |-> r, kP |-> SharedPoint(r, key), x2y2 |-> x2y2]} :
        IF all_zero(Ct.ciphertext, Len(in))
        THEN /\ zretries < MaxZeroRetries
             /\ zretries' = zretries + 1
             /\ C' = Ct
             /\ loc' = EncryptKeep(tried)
             /\ pc' = "retry"
             /\ UNCHANGED <<ret, out, outlen>>
        ELSE \E Cf \in {WithBodyAndTag(Ct, x2y2, in)} :
             \E der \in {sm2_ciphertext_to_der(Cf)} :
                 /\ C' = Cf
                 /\ loc' = EncryptWipe(tried)
                 /\ out' = der
                 /\ outlen' = Len(der)
                 /\ Return(1)
                 /\ UNCHANGED zretries

\* one pass from the label retry of sm2_do_encrypt
sm2_do_encrypt_attempt ==
    /\ UNCHANGED streamvars
    /\ pc = "retry" /\ op = "sm2_encrypt"
    /\ \/ /\ Return(-1)
          /\ loc' = EncryptKeep(loc)
          /\ UNCHANGED <<C, out, outlen, attempts, zretries>>
       \/ \E r \in Scalars :
            IF r = 0
            THEN /\ loc' = [loc EXCEPT !.k = r]
                 /\ UNCHANGED <<pc, ret, C, out, outlen, attempts, zretries>>
            ELSE /\ attempts' = attempts + 1
                 /\ \E Cp \in {WithPoint(C, r)} : EncryptTail(r, Cp)
    /\ UNCHANGED <<key, op, in, point_size, trys, dec, inrest, dmul, Cpre, variant, sent>>

(***************************************************************************)
(* sm2_encrypt_fixlen and sm2_do_encrypt_fixlen                            *)
(***************************************************************************)

sm2_encrypt_fixlen_call ==
    /\ UNCHANGED streamvars
    /\ CanCall
    /\ \E M \in FixlenPlaintexts \cup BadPlaintexts, ps \in PointSizes, null \in BOOLEAN :
        /\ Fresh("sm2_encrypt_fixlen", M, ps, StackCiphertext, "none", NothingSent)
        /\ C' = StackCiphertext /\ out' = <<>> /\ outlen' = Unwritten /\ inrest' = <<>>
        /\ IF null \/ Len(M) = 0 \/ ~PlaintextSizeOk(Len(M)) \/ ~PointSizeOk(ps)
           THEN Return(-1)
           ELSE pc' = "retry" /\ ret' = 0

\* one pass from the label retry of sm2_do_encrypt_fixlen
sm2_do_encrypt_fixlen_attempt ==
    /\ UNCHANGED streamvars
    /\ pc = "retry" /\ op = "sm2_encrypt_fixlen"
    /\ \/ /\ Return(-1)
          /\ loc' = EncryptKeep(loc)
          /\ UNCHANGED <<C, trys, out, outlen, attempts, zretries>>
       \/ \E r \in Scalars :
            IF r = 0
            THEN /\ loc' = [loc EXCEPT !.k = r]
                 /\ UNCHANGED <<pc, ret, C, trys, out, outlen, attempts, zretries>>
            ELSE /\ attempts' = attempts + 1
                 /\ \E Cp \in {WithPoint(C, r)} :
                    IF trys # 0
                    THEN IF FixlenMismatch(Cp, point_size)
                         THEN /\ trys' = TrysAfterMismatch(trys)
                              /\ C' = Cp
                              /\ loc' = EncryptKeep([loc EXCEPT !.k = r])
                              /\ pc' = "retry"
                              /\ UNCHANGED <<ret, out, outlen, zretries>>
                         ELSE /\ EncryptTail(r, Cp)
                              /\ UNCHANGED trys
                    ELSE /\ C' = Cp
                         /\ loc' = FixlenGiveUpWipe([loc EXCEPT !.k = r])
                         /\ Return(-1)
                         /\ UNCHANGED <<trys, out, outlen, zretries>>
    /\ UNCHANGED <<key, op, in, point_size, dec, inrest, dmul, Cpre, variant, sent>>

(***************************************************************************)
(* sm2_ciphertext_to_der and sm2_ciphertext_from_der, called directly      *)
(***************************************************************************)

sm2_ciphertext_to_der_call ==
    /\ UNCHANGED streamvars
    /\ CanCall
    /\ \E Cw \in WellFormedCiphertexts :
       \E der \in {sm2_ciphertext_to_der(Cw)} :
        /\ Fresh("sm2_ciphertext_to_der", <<>>, 0, Cw, "none", NothingSent)
        /\ C' = Cw
        /\ out' = der
        /\ outlen' = Len(der)
        /\ inrest' = <<>>
        /\ Return(1)

\* an encoding call has returned success: its frame is gone, the caller keeps
\* the ciphertext C, its encoding out and, for an encryption, the plaintext
result_taken ==
    /\ UNCHANGED streamvars
    /\ pc = "done" /\ ret = 1
    /\ op \in {"sm2_encrypt", "sm2_encrypt_fixlen", "sm2_ciphertext_to_der"}
    /\ pc' = "taken"
    /\ sent' = [op |-> op, C |-> C,
                M |-> IF op = "sm2_ciphertext_to_der" THEN <<>> ELSE in,
                retried |-> attempts > 1]
    /\ loc' = UnsetLocals
    /\ trys' = InitialTrys
    /\ attempts' = 0
    /\ zretries' = 0
    /\ UNCHANGED <<key, op, in, point_size, C, dec, inrest, out, outlen, ret,
                   dmul, Cpre, variant>>

\* the caller's object is a fresh one or the ciphertext it just encoded
sm2_ciphertext_from_der_call ==
    /\ UNCHANGED streamvars
    /\ Encoded
    /\ \E v \in WireVariants, C0 \in {StackCiphertext, C} :
       \E wire \in Wires(C, out, v) :
       \E r \in {sm2_ciphertext_from_der(C0, wire)} :
        /\ Fresh("sm2_ciphertext_from_der", wire, 0, C0, v, sent)
        /\ C' = r.C
        /\ inrest' = r.rest
        /\ out' = <<>> /\ outlen' = Unwritten
        /\ Return(r.ret)

(***************************************************************************)
(* sm2_decrypt and sm2_do_decrypt                                          *)
(***************************************************************************)

\* sm2_decrypt up to the call of sm2_do_decrypt; the variant "null" is a call
\* with a NULL argument
DecryptCallOn(vs) ==
    /\ UNCHANGED streamvars
    /\ Encoded
    /\ \E v \in vs :
       \E wire \in Wires(C, out, v) :
       \E r \in {sm2_ciphertext_from_der(StackCiphertext, wire)} :
        /\ Fresh("sm2_decrypt", wire, 0, StackCiphertext, v, sent)
        /\ out' = <<>> /\ outlen' = Unwritten
        /\ IF v = "null"
           THEN C' = StackCiphertext /\ inrest' = wire /\ Return(-1)
           ELSE /\ C' = r.C
                /\ inrest' = r.rest
                /\ IF DecodedAll(r)
                   THEN pc' = "do_decrypt" /\ ret' = 0
                   ELSE Return(-1)

sm2_decrypt_call == DecryptCallOn(WireVariants \cup {"null"})

\* sm2_do_decrypt called on an in-memory ciphertext
sm2_do_decrypt_call ==
    /\ UNCHANGED streamvars
    /\ Encoded
    /\ \E v \in StructVariants :
       \E T \in Tampered(C, v) :
        /\ Fresh("sm2_do_decrypt", <<>>, 0, T, v, sent)
        /\ C' = T
        /\ inrest' = <<>>
        /\ out' = <<>> /\ outlen' = Unwritten
        /\ pc' = "do_decrypt" /\ ret' = 0

\* sm2_do_decrypt: C1 from the ciphertext and the on-curve check
sm2_do_decrypt_check ==
    /\ UNCHANGED streamvars
    /\ pc = "do_decrypt"
    /\ \E C1 \in {sm2_z256_point_from_bytes([x |-> C.x, y |-> C.y])} :
        /\ dec' = [dec EXCEPT !.C1 = C1]
        /\ IF ~DecryptPointOk(C1) THEN Return(-1) ELSE pc' = "do_decrypt_mul" /\ ret' = ret
    /\ UNCHANGED <<key, op, in, point_size, C, loc, trys, inrest, out, outlen,
                   attempts, zretries, dmul, Cpre, variant, sent>>

\* sm2_do_decrypt from d * C1 to the return
sm2_do_decrypt_finish ==
    /\ UNCHANGED streamvars
    /\ pc = "do_decrypt_mul"
    /\ dmul' = IF sm2_point_is_on_curve(sm2_z256_point_to_bytes(dec.C1))
               THEN "oncurve" ELSE "offcurve"
    /\ \E dC1 \in {sm2_z256_point_mul(key.private_key, dec.C1)} :
       \E x2y2 \in {PointBytes(sm2_z256_point_to_bytes(dC1))} :
       \E t \in {sm2_kdf(x2y2, C.ciphertext_size)} :
       \E used \in {[d |-> key.private_key, C1 |-> dC1, x2y2 |-> x2y2]} :
        IF all_zero(t, C.ciphertext_size)
        THEN /\ out' = t
             /\ dec' = DecryptWipe(used)
             /\ Return(-1)
             /\ outlen' = DecryptOutlen(C.ciphertext_size, TRUE, outlen)
        ELSE \E M \in {gmssl_memxor(t, C.ciphertext, C.ciphertext_size)} :
                /\ out' = M
                /\ outlen' = DecryptOutlen(C.ciphertext_size, FALSE, outlen)
                /\ dec' = DecryptWipe(used)
                /\ IF TagMatches(C.hash, sm3_digest(DecTagInput(x2y2, M)))
                   THEN Return(1)
                   ELSE Return(-1)
    /\ UNCHANGED <<key, op, in, point_size, C, loc, trys, inrest, attempts,
                   zretries, Cpre, variant, sent>>

Next ==
    \/ result_taken
    \/ sm2_encrypt_call
    \/ sm2_do_encrypt_attempt
    \/ sm2_encrypt_fixlen_call
    \/ sm2_do_encrypt_fixlen_attempt
    \/ sm2_ciphertext_to_der_call
    \/ sm2_ciphertext_from_der_call
    \/ sm2_decrypt_call
    \/ sm2_do_decrypt_call
    \/ sm2_do_decrypt_check
    \/ sm2_do_decrypt_finish

Spec == Init /\ [][Next]_vars

(***************************************************************************)
(* The streaming calls: init, update, finish in both directions            *)
(***************************************************************************)

\* upper bound of the DER encoding of a ciphertext of SM2_MAX_PLAINTEXT_SIZE bytes
SM2_MAX_CIPHERTEXT_SIZE == 366

\* how many update and finish calls a run makes on one context
MaxStreamCalls == 3

\* the maximum the update and finish routines of a direction compare with
StreamMax(dir) ==
    IF dir = "encrypt" THEN SM2_MAX_PLAINTEXT_SIZE ELSE SM2_MAX_CIPHERTEXT_SIZE

\* the length a finish call with out == NULL reports, the same in both directions
QueryLen_same(dir) == SM2_MAX_PLAINTEXT_SIZE

\* *outlen of a finish call with out == NULL
QueryLen(dir) ==
    IF dir = "encrypt" THEN SM2_MAX_CIPHERTEXT_SIZE ELSE SM2_MAX_PLAINTEXT_SIZE

\* memset(ctx, 0, sizeof(*ctx)); ctx->sm2_key = *sm2_key
InitCtx(K) == [buf |-> <<>>, buf_size |-> 0, sm2_key |-> K]

\* the check of update with >= in place of >
ChunkFits_ge(inlen, size, max) == ~(inlen >= max - size)

\* update: if (inlen > MAX - ctx->buf_size) return -1
ChunkFits(inlen, size, max) == ~(inlen > max - size)

\* the check of finish left out
FinalChunkFits_always(inlen, size, max) == TRUE

\* finish: if (inlen > MAX - ctx->buf_size) return -1
FinalChunkFits(inlen, size, max) == ~(inlen > max - size)

\* the chunk copied to the front of buf
AppendChunk_front(cx, b) ==
    [cx EXCEPT !.buf = b \o @, !.buf_size = @ + Len(b)]

\* memcpy(ctx->buf + ctx->buf_size, in, inlen); ctx->buf_size += inlen
AppendChunk(cx, b) ==
    [cx EXCEPT !.buf = @ \o b, !.buf_size = @ + Len(b)]

\* the test of the final chunk without !inlen
NoFinalData_nullonly(chunk, max) == chunk.null \/ Len(chunk.bytes) > max

\* finish on an empty buffer: if (!in || !inlen || inlen > MAX) return -1
NoFinalData(chunk, max) ==
    chunk.null \/ Len(chunk.bytes) = 0 \/ Len(chunk.bytes) > max

\* sm2_encrypt_update / sm2_decrypt_update after the NULL checks: the return
\* value, the context and *outlen
StreamUpdate(cx, chunk, outnull, outlen0, max) ==
    IF cx.buf_size > max
    THEN [ret |-> 0 - 1, ctx |-> cx, outlen |-> outlen0]
    ELSE IF outnull
    THEN [ret |-> 1, ctx |-> cx, outlen |-> 0]
    ELSE IF ~chunk.null
    THEN IF ~ChunkFits(Len(chunk.bytes), cx.buf_size, max)
         THEN [ret |-> 0 - 1, ctx |-> cx, outlen |-> outlen0]
         ELSE [ret |-> 1, ctx |-> AppendChunk(cx, chunk.bytes), outlen |-> 0]
    ELSE [ret |-> 1, ctx |-> cx, outlen |-> 0]

\* sm2_encrypt_finish / sm2_decrypt_finish up to the call of the one-shot
\* routine: ret = 0 stands for "the one-shot routine is called on input"
StreamFinish(cx, chunk, outnull, outlen0, dir) ==
    LET max == StreamMax(dir)
        stop == [ret |-> 0 - 1, ctx |-> cx, outlen |-> outlen0, input |-> <<>>]
    IN  IF cx.buf_size > max THEN stop
        ELSE IF outnull
        THEN [ret |-> 1, ctx |-> cx, outlen |-> QueryLen(dir), input |-> <<>>]
        ELSE IF cx.buf_size # 0
        THEN IF ~chunk.null
             THEN IF ~FinalChunkFits(Len(chunk.bytes), cx.buf_size, max) THEN stop
                  ELSE LET cy == AppendChunk(cx, chunk.bytes)
                       IN  [ret |-> 0, ctx |-> cy, outlen |-> outlen0, input |-> cy.buf]
             ELSE [ret |-> 0, ctx |-> cx, outlen |-> outlen0, input |-> cx.buf]
        ELSE IF NoFinalData(chunk, max) THEN stop
             ELSE [ret |-> 0, ctx |-> cx, outlen |-> outlen0, input |-> chunk.bytes]

\* the pieces a call has taken in, with the routine that took them
Accepted(fn, chunk, outnull, r) ==
    IF r.ret >= 0 /\ ~outnull /\ ~chunk.null
    THEN Append(chunks, [fn |-> fn, bytes |-> chunk.bytes])
    ELSE chunks

\* the plaintext chunks of the callers of the encrypt direction
Fill127 == Fill(9, 127)
EncryptChunks == {NullChunk, Chunk(<<>>), Chunk(<<97>>), Chunk(<<0, 255>>), Chunk(Fill127)}

\* the arguments of a call with out == NULL
QueryChunks == {NullChunk, Chunk(<<97>>)}

\* the ciphertexts the callers of the decrypt direction hold: encryptions
\* under the key of the run with the scalar k
StreamSources == {[k |-> 1, M |-> <<97>>], [k |-> 3, M |-> MsgMax]}
EncryptionOf(k, K, M) ==
    LET x2y2 == SharedBytes(k, K)
    IN  WithBodyAndTag(WithKeystream(WithPoint(StackCiphertext, k), x2y2, Len(M)), x2y2, M)

\* the ciphertext chunks: the next byte of the encoding, all that is left of
\* it, and bytes that belong to no encoding
JunkChunk == Fill(7, 200)
DecryptChunks ==
    LET pos == ctx.buf_size
        onwire == pos < Len(planned) /\ ctx.buf = Take(planned, pos)
    IN  {NullChunk, Chunk(<<>>), Chunk(JunkChunk)}
        \cup (IF onwire THEN {Chunk(SubSeq(planned, pos + 1, pos + 1)),
                              Chunk(Drop(planned, pos))}
              ELSE {})

\* a context of the direction is there and the run may call again
StreamOpen(dir) ==
    /\ pc = "done" /\ st.dir = dir /\ ctx # UnsetCtx
    /\ op \in {st.fn, IF dir = "encrypt" THEN "sm2_encrypt" ELSE "sm2_decrypt"}
    /\ calls < MaxStreamCalls

\* a streaming call that returns without calling a one-shot routine
StreamReturn(fn, r) ==
    /\ op' = fn
    /\ ctx' = r.ctx
    /\ outlen' = r.outlen
    /\ out' = <<>>
    /\ Return(r.ret)
    /\ UNCHANGED <<key, in, point_size, C, loc, trys, dec, inrest, attempts,
                   zretries, dmul, Cpre, variant, sent>>

sm2_encrypt_init_call ==
    /\ CanCall
    /\ \E null \in BOOLEAN :
        /\ ctx' = IF null THEN ctx ELSE InitCtx(key)
        /\ Return(IF null THEN 0 - 1 ELSE 1)
    /\ op' = "sm2_encrypt_init"
    /\ ctxpre' = ctx
    /\ st' = [dir |-> "encrypt", fn |-> "sm2_encrypt_init", in |-> NullChunk, outnull |-> FALSE]
    /\ chunks' = <<>> /\ calls' = 0
    /\ UNCHANGED <<key, in, point_size, C, loc, trys, dec, inrest, out, outlen,
                   attempts, zretries, dmul, Cpre, variant, sent, planned>>

sm2_decrypt_init_call ==
    /\ CanCall
    /\ \E null \in BOOLEAN :
        /\ ctx' = IF null THEN ctx ELSE InitCtx(key)
        /\ Return(IF null THEN 0 - 1 ELSE 1)
    /\ \E s \in StreamSources :
       \E Cs \in {EncryptionOf(s.k, key, s.M)} :
        /\ sent' = [op |-> "sm2_encrypt", C |-> Cs, M |-> s.M, retried |-> FALSE]
        /\ planned' = sm2_ciphertext_to_der(Cs)
    /\ op' = "sm2_decrypt_init"
    /\ ctxpre' = ctx
    /\ st' = [dir |-> "decrypt", fn |-> "sm2_decrypt_init", in |-> NullChunk, outnull |-> FALSE]
    /\ chunks' = <<>> /\ calls' = 0
    /\ UNCHANGED <<key, in, point_size, C, loc, trys, dec, inrest, out, outlen,
                   attempts, zretries, dmul, Cpre, variant>>

\* the bookkeeping of an update or finish call
StreamCall(dir, fn, chunk, outnull, r) ==
    /\ ctxpre' = ctx
    /\ st' = [dir |-> dir, fn |-> fn, in |-> chunk, outnull |-> outnull]
    /\ chunks' = Accepted(fn, chunk, outnull, r)
    /\ calls' = calls + 1
    /\ UNCHANGED planned

\* the arguments (in, inlen, out) the model passes
StreamArgs(dir) ==
    {<<c, FALSE>> : c \in IF dir = "encrypt" THEN EncryptChunks ELSE DecryptChunks}
    \cup {<<c, TRUE>> : c \in QueryChunks}

sm2_encrypt_update_call ==
    /\ StreamOpen("encrypt")
    /\ \E a \in StreamArgs("encrypt") :
       \E r \in {StreamUpdate(ctx, a[1], a[2], Unwritten, SM2_MAX_PLAINTEXT_SIZE)} :
        /\ StreamCall("encrypt", "sm2_encrypt_update", a[1], a[2], r)
        /\ StreamReturn("sm2_encrypt_update", r)

sm2_decrypt_update_call ==
    /\ StreamOpen("decrypt")
    /\ \E a \in StreamArgs("decrypt") :
       \E r \in {StreamUpdate(ctx, a[1], a[2], Unwritten, SM2_MAX_CIPHERTEXT_SIZE)} :
        /\ StreamCall("decrypt", "sm2_decrypt_update", a[1], a[2], r)
        /\ StreamReturn("sm2_decrypt_update", r)

\* sm2_encrypt_finish up to the label retry of sm2_do_encrypt
sm2_encrypt_finish_call ==
    /\ StreamOpen("encrypt")
    /\ \E a \in StreamArgs("encrypt") :
       \E r \in {StreamFinish(ctx, a[1], a[2], Unwritten, "encrypt")} :
        /\ StreamCall("encrypt", "sm2_encrypt_finish", a[1], a[2], r)
        /\ IF r.ret # 0
           THEN StreamReturn("sm2_encrypt_finish", r)
           ELSE /\ Fresh("sm2_encrypt", r.input, 0, StackCiphertext, "none", NothingSent)
                /\ ctx' = r.ctx
                /\ C' = StackCiphertext /\ out' = <<>> /\ outlen' = Unwritten
                /\ inrest' = <<>>
                /\ IF Len(r.input) = 0 \/ ~PlaintextSizeOk(Len(r.input))
                   THEN Return(0 - 1)
                   ELSE pc' = "retry" /\ ret' = 0

\* sm2_decrypt_finish up to the call of sm2_do_decrypt
sm2_decrypt_finish_call ==
    /\ StreamOpen("decrypt")
    /\ \E a \in StreamArgs("decrypt") :
       \E r \in {StreamFinish(ctx, a[1], a[2], Unwritten, "decrypt")} :
        /\ StreamCall("decrypt", "sm2_decrypt_finish", a[1], a[2], r)
        /\ IF r.ret # 0
           THEN StreamReturn("sm2_decrypt_finish", r)
           ELSE \E d \in {sm2_ciphertext_from_der(StackCiphertext, r.input)} :
                /\ Fresh("sm2_decrypt", r.input, 0, StackCiphertext,
                         IF r.input = planned THEN "valid" ELSE "stream", sent)
                /\ ctx' = r.ctx
                /\ out' = <<>> /\ outlen' = Unwritten
                /\ C' = d.C
                /\ inrest' = d.rest
                /\ IF DecodedAll(d)
                   THEN pc' = "do_decrypt" /\ ret' = 0
                   ELSE Return(0 - 1)

\* sm2_encrypt_finish has returned success: the caller keeps the encoding and
\* the plaintext it fed
stream_result_taken ==
    /\ pc = "done" /\ ret = 1 /\ op = "sm2_encrypt" /\ st.fn = "sm2_encrypt_finish"
    /\ pc' = "taken"
    /\ sent' = [op |-> st.fn, C |-> C, M |-> in, retried |-> attempts > 1]
    /\ loc' = UnsetLocals
    /\ attempts' = 0
    /\ zretries' = 0
    /\ UNCHANGED <<key, op, in, point_size, C, trys, dec, inrest, out, outlen, ret,
                   dmul, Cpre, variant>>
    /\ UNCHANGED streamvars

\* sm2_decrypt called on the encoding that sm2_encrypt_finish emitted
sm2_decrypt_emitted_call == DecryptCallOn({"valid"})

StreamNext ==
    \/ sm2_encrypt_init_call
    \/ sm2_encrypt_update_call
    \/ sm2_encrypt_finish_call
    \/ sm2_do_encrypt_attempt
    \/ stream_result_taken
    \/ sm2_decrypt_emitted_call
    \/ sm2_decrypt_init_call
    \/ sm2_decrypt_update_call
    \/ sm2_decrypt_finish_call
    \/ sm2_do_decrypt_check
    \/ sm2_do_decrypt_finish

StreamSpec == Init /\ [][StreamNext]_vars

(***************************************************************************)
(* Properties                                                              *)
(***************************************************************************)

EncryptOps == {"sm2_encrypt", "sm2_encrypt_fixlen"}
DecryptOps == {"sm2_decrypt", "sm2_do_decrypt"}

Returned(ops) == pc = "done" /\ op \in ops

\* x2 || y2 of d * (x, y) for the private key d of the run, from the group
\* law alone
SharedOf(Cp) ==
    LET i == CHOOSE j \in CurveIndex(Cp.x, Cp.y) : TRUE
    IN  PointBytes(AffinePoint((key.private_key * i) % Order))

\* SM3(x2 || M || y2)
Sm2Tag(x2y2, M) == sm3_digest(Take(x2y2, CoordLen) \o M \o Drop(x2y2, CoordLen))

\* DER length of an OCTET STRING of n bytes, and of the whole ciphertext for a
\* point of DER length ps and a body of L bytes
OctetStringLen(n) == 1 + Len(asn1_length_to_der(n)) + n
TotalDerLen(ps, L) ==
    LET content == ps + OctetStringLen(HashLen) + OctetStringLen(L)
    IN  1 + Len(asn1_length_to_der(content)) + content

\* C1: sm2_decrypt of the unmodified output of a successful sm2_encrypt or
\* sm2_encrypt_fixlen, under the private key of the same pair, returns 1 with
\* the plaintext and its length.
C1_RoundTrip ==
    (Returned({"sm2_decrypt"}) /\ variant = "valid" /\ sent.op \in EncryptOps)
        => (ret = 1 /\ out = sent.M /\ outlen = Len(sent.M))

\* C1 witness: a decryption of a ciphertext that sm2_encrypt produced after
\* a retry has returned the plaintext.
C1_Witness ==
    /\ Returned({"sm2_decrypt"}) /\ variant = "valid"
    /\ sent.op = "sm2_encrypt" /\ sent.retried
    /\ ret = 1 /\ out = <<0, 255>>

\* C2: sm2_do_decrypt returns 1 only if the stored hash is SM3(x2 || M || y2)
\* of the plaintext it recovered; a ciphertext with one bit of its hash or of
\* its body flipped is never accepted.
C2_TagRejection ==
    Returned(DecryptOps) =>
        /\ ret = 1 => C.hash = Sm2Tag(SharedOf(C), out)
        /\ variant \in {"hash", "body"} => ret # 1

\* C2 witness: a ciphertext of sm2_encrypt with a flipped body bit went through
\* the comparison of the tags and was rejected.
C2_Witness ==
    /\ Returned({"sm2_do_decrypt"}) /\ variant = "body" /\ sent.op = "sm2_encrypt"
    /\ ret = 0 - 1 /\ outlen = C.ciphertext_size

\* C3: a ciphertext whose point is off the curve is refused by
\* sm2_ciphertext_from_der and by sm2_do_decrypt, and d is multiplied only by
\* a point that has passed the on-curve check.
C3_OnCurveBeforeKey ==
    /\ dmul # "offcurve"
    /\ pc = "do_decrypt" => (dec.d = Unwritten /\ dmul = "none")
    /\ pc = "do_decrypt_mul" =>
          (sm2_point_is_on_curve(C) /\ dec.d = Unwritten /\ dmul = "none")
    /\ (Returned(DecryptOps \cup {"sm2_ciphertext_from_der"}) /\ variant = "point")
          => (ret # 1 /\ dmul = "none" /\ dec.d = Unwritten)

\* C3 witness: sm2_do_decrypt has refused an off-curve ciphertext.
C3_Witness ==
    /\ Returned({"sm2_do_decrypt"}) /\ variant = "point"
    /\ ~sm2_point_is_on_curve(C) /\ ret = 0 - 1

\* C4 (as claimed): at every return of sm2_do_encrypt and
\* sm2_do_encrypt_fixlen the locals k, k * P and x2y2 hold no value of any
\* attempt: each is unwritten or cleared.
C4_EncryptSecretsWiped ==
    Returned(EncryptOps) =>
        /\ loc.k \in {Unwritten, ClearedScalar}
        /\ loc.kP \in {UnsetZ256Point, ClearedZ256Point}
        /\ loc.x2y2 \in {<<>>, ClearedX2Y2}

\* C5: at every return of sm2_do_decrypt the local d and x2y2 are unwritten
\* or cleared, and the local point is unwritten, cleared, or still the public
\* point of the ciphertext that was never multiplied by d.
C5_DecryptSecretsWiped ==
    Returned(DecryptOps) =>
        /\ dec.d \in {Unwritten, ClearedScalar}
        /\ dec.x2y2 \in {<<>>, ClearedX2Y2}
        /\ \/ dec.C1 \in {UnsetZ256Point, ClearedZ256Point}
           \/ /\ dec.C1 = sm2_z256_point_from_bytes([x |-> C.x, y |-> C.y])
              /\ dmul = "none"

\* C5 witness: sm2_decrypt has returned failure on a tag mismatch, after the
\* multiplication by d, with d cleared.
C5_Witness ==
    /\ Returned({"sm2_decrypt"}) /\ variant = "hash" /\ ret = 0 - 1
    /\ dmul = "oncurve" /\ dec.d = ClearedScalar /\ dec.C1 = ClearedZ256Point

\* C6: when sm2_encrypt_fixlen returns 1, the DER lengths of INTEGER x and
\* INTEGER y add up to point_size and the length of the output is the one
\* that point_size and the plaintext length determine.
C6_LengthMatching ==
    (Returned({"sm2_encrypt_fixlen"}) /\ ret = 1) =>
        /\ Len(asn1_integer_to_der(C.x)) + Len(asn1_integer_to_der(C.y)) = point_size
        /\ outlen = TotalDerLen(point_size, Len(in))
        /\ Len(out) = outlen

\* C6 witness: a success after a length mismatch and after an all-zero
\* keystream.
C6_Witness ==
    /\ Returned({"sm2_encrypt_fixlen"}) /\ ret = 1
    /\ zretries > 0 /\ trys < InitialTrys

\* C7 (as claimed): a call of sm2_do_encrypt_fixlen that meets no all-zero
\* keystream computes k * G at most 200 times.
C7_AtMostTrysAttempts ==
    (op = "sm2_encrypt_fixlen" /\ zretries = 0) => attempts <= InitialTrys

\* C8: sm2_ciphertext_from_der of the output of sm2_ciphertext_to_der returns 1
\* with the same x, y, hash, body and body length, and no input left.
C8_DerRoundTrip ==
    (Returned({"sm2_ciphertext_from_der"}) /\ variant = "valid") =>
        /\ ret = 1
        /\ C.x = sent.C.x /\ C.y = sent.C.y /\ C.hash = sent.C.hash
        /\ C.ciphertext_size = sent.C.ciphertext_size
        /\ Body(C) = Body(sent.C)
        /\ inrest = <<>>

\* C8 witness: a ciphertext with a leading zero byte in x and a body of the
\* maximal length has been decoded.
C8_Witness ==
    /\ Returned({"sm2_ciphertext_from_der"}) /\ variant = "valid" /\ ret = 1
    /\ sent.C.x[1] = 0 /\ sent.C.ciphertext_size = SM2_MAX_PLAINTEXT_SIZE

\* C9 (as claimed): sm2_ciphertext_from_der fails on an encoding followed by
\* further bytes.
C9_DecoderRejectsTrailing ==
    (Returned({"sm2_ciphertext_from_der"}) /\ variant = "trailing") => ret # 1

\* C9 (amended): on an encoding followed by further bytes
\* sm2_ciphertext_from_der returns 1 and leaves exactly those bytes unread;
\* sm2_decrypt, which checks the unread length, returns -1 without calling
\* sm2_do_decrypt.
C9_DecryptRejectsTrailing ==
    /\ (Returned({"sm2_ciphertext_from_der"}) /\ variant = "trailing") =>
          /\ ret = 1
          /\ inrest \in TrailingBytes
          /\ in = sm2_ciphertext_to_der(sent.C) \o inrest
    /\ (op = "sm2_decrypt" /\ variant = "trailing") =>
          /\ pc = "done" /\ ret = 0 - 1
          /\ dmul = "none" /\ dec = UnsetDecLocals /\ out = <<>>

\* C9 witness: sm2_decrypt has refused an encoding with trailing bytes.
C9_Witness ==
    /\ Returned({"sm2_decrypt"}) /\ variant = "trailing"
    /\ ret = 0 - 1 /\ inrest \in TrailingBytes

\* C10 (as claimed): when sm2_ciphertext_from_der fails, the caller's
\* SM2_CIPHERTEXT is as it was before the call.
C10_FailureLeavesObject ==
    (Returned({"sm2_ciphertext_from_der"}) /\ ret # 1) => C = Cpre

\* C11 (as claimed): a decryption that fails after the on-curve check leaves
\* the caller's *outlen as either cause of failure leaves it, the all-zero
\* keystream and the tag mismatch, and returns -1.
C11_FailuresAlike ==
    (Returned(DecryptOps) /\ ret # 1 /\ dmul = "oncurve") =>
        /\ ret = 0 - 1
        /\ outlen = DecryptOutlen(C.ciphertext_size, TRUE, Unwritten)
        /\ outlen = DecryptOutlen(C.ciphertext_size, FALSE, Unwritten)

\* C16: sm2_encrypt and sm2_encrypt_fixlen called with an empty plaintext, a
\* plaintext longer than SM2_MAX_PLAINTEXT_SIZE or, for sm2_encrypt_fixlen, a
\* point_size that is none of the three presets return -1 without drawing a
\* scalar and without writing the output or *outlen.
C16_BadArgumentsRejected ==
    (/\ op \in EncryptOps
     /\ \/ Len(in) = 0
        \/ Len(in) > SM2_MAX_PLAINTEXT_SIZE
        \/ /\ op = "sm2_encrypt_fixlen"
           /\ point_size \notin {SM2_ciphertext_compact_point_size,
                                 SM2_ciphertext_typical_point_size,
                                 SM2_ciphertext_max_point_size})
        => /\ pc = "done" /\ ret = 0 - 1
           /\ attempts = 0 /\ loc = UnsetLocals
           /\ out = <<>> /\ outlen = Unwritten

\* C16 witness: sm2_encrypt_fixlen has refused a plaintext of
\* SM2_MAX_PLAINTEXT_SIZE + 1 bytes given with a valid point_size.
C16_Witness ==
    /\ Returned({"sm2_encrypt_fixlen"}) /\ ret = 0 - 1
    /\ Len(in) = SM2_MAX_PLAINTEXT_SIZE + 1
    /\ point_size = SM2_ciphertext_typical_point_size

\* C17: in sm2_do_encrypt_fixlen a step changes trys only by decreasing it by
\* one, and it does so exactly when it has computed a k * G whose DER length
\* differs from point_size while trys was non-zero; a step that meets an
\* all-zero keystream leaves trys as it is; both go back to the label retry.
C17_TrysOnlyOnMismatch ==
    [][(pc = "retry" /\ op = "sm2_encrypt_fixlen") =>
          /\ trys' \in {trys, trys - 1}
          /\ (trys' = trys - 1) <=>
                (attempts' = attempts + 1 /\ trys # 0 /\ FixlenMismatch(C', point_size))
          /\ (trys' = trys - 1) => (pc' = "retry" /\ zretries' = zretries)
          /\ (zretries' # zretries) =>
                (zretries' = zretries + 1 /\ trys' = trys /\ pc' = "retry")]_vars

\* C17 witness: a call of sm2_encrypt_fixlen is back at the label retry after
\* an all-zero keystream and after length mismatches.
C17_Witness ==
    /\ op = "sm2_encrypt_fixlen" /\ pc = "retry"
    /\ zretries > 0 /\ trys < InitialTrys - 1

\* C18: on every successful return of the encrypt routines one non-zero k
\* accounts for the whole ciphertext: the point is k * G, the keystream of
\* k * P is not all-zero, the body is M xor t with ciphertext_size = |M|, and
\* the hash is SM3(x2 || M || y2).
C18_SingleAttempt ==
    (Returned(EncryptOps) /\ ret = 1) =>
        \E k \in NonZeroScalars :
            /\ C.x = CoordX(k) /\ C.y = CoordY(k)
            /\ C.ciphertext_size = Len(in)
            /\ \E x2y2 \in {PointBytes(AffinePoint((k * key.private_key) % Order))} :
               \E t \in {sm2_kdf(x2y2, Len(in))} :
                  /\ \E j \in 1..Len(in) : t[j] # 0
                  /\ Body(C) = [j \in 1..Len(in) |-> XorByte(in[j], t[j])]
                  /\ C.hash = Sm2Tag(x2y2, in)

\* C18 witness: sm2_encrypt has succeeded on its third attempt, after two
\* all-zero keystreams.
C18_Witness ==
    /\ Returned({"sm2_encrypt"}) /\ ret = 1
    /\ zretries = MaxZeroRetries /\ attempts = zretries + 1

UpdateFns == {"sm2_encrypt_update", "sm2_decrypt_update"}
FinishFns == {"sm2_encrypt_finish", "sm2_decrypt_finish"}

\* the one-shot routine the finish routine of a direction calls
OneShotOf(dir) == IF dir = "encrypt" THEN "sm2_encrypt" ELSE "sm2_decrypt"

\* the streaming call made last is one of fns and has returned
StreamReturned(fns) ==
    pc = "done" /\ st.fn \in fns /\ op \in {st.fn, OneShotOf(st.dir)}

\* the maximum of the direction of the call made last
DirectionMax ==
    IF st.dir = "encrypt" THEN SM2_MAX_PLAINTEXT_SIZE ELSE SM2_MAX_CIPHERTEXT_SIZE

\* the calls since init were update, update, finish, each with a non-NULL
\* output and a non-empty piece that it accepted
ThreePieces(dir) ==
    /\ st.dir = dir /\ ~st.outnull
    /\ calls = 3 /\ Len(chunks) = 3
    /\ chunks[1].fn = "sm2_" \o dir \o "_update"
    /\ chunks[2].fn = "sm2_" \o dir \o "_update"
    /\ chunks[3].fn = "sm2_" \o dir \o "_finish"
    /\ \A i \in 1..3 : Len(chunks[i].bytes) > 0
Pieces == chunks[1].bytes \o chunks[2].bytes \o chunks[3].bytes

\* C12: after init; update(M1); update(M2); finish(M3) with non-empty pieces
\* the one-shot routine is called on M1 || M2 || M3; sm2_decrypt of what
\* sm2_encrypt_finish emitted returns M1 || M2 || M3, and sm2_decrypt_finish
\* of an encoding fed in three pieces returns the plaintext of the encoding.
C12_StreamingEquivalence ==
    /\ (ThreePieces("encrypt") /\ op = "sm2_encrypt") => in = Pieces
    /\ (ThreePieces("encrypt") /\ Returned({"sm2_decrypt"}) /\ variant = "valid") =>
          /\ sent.op = "sm2_encrypt_finish" /\ sent.M = Pieces
          /\ ret = 1 /\ out = Pieces /\ outlen = Len(Pieces)
    /\ (ThreePieces("decrypt") /\ Pieces = planned /\ op = "sm2_decrypt") =>
          /\ in = planned
          /\ pc = "done" => (ret = 1 /\ out = sent.M /\ outlen = Len(sent.M))

\* C12 witness: a plaintext of SM2_MAX_PLAINTEXT_SIZE bytes fed in three
\* pieces has been encrypted and decrypted again.
C12_Witness ==
    /\ ThreePieces("encrypt") /\ Returned({"sm2_decrypt"})
    /\ ret = 1 /\ Len(out) = SM2_MAX_PLAINTEXT_SIZE

\* C13: an update call with a non-NULL output and a chunk returns -1 and
\* leaves the context alone exactly when buf_size + inlen exceeds the maximum
\* of its direction; otherwise it returns 1 with the chunk at the end of buf,
\* buf_size larger by inlen and *outlen = 0.
C13_UpdateAppendsOrRejects ==
    (StreamReturned(UpdateFns) /\ ~st.outnull /\ ~st.in.null) =>
        IF ctxpre.buf_size + Len(st.in.bytes) > DirectionMax
        THEN ret = 0 - 1 /\ ctx = ctxpre
        ELSE /\ ret = 1
             /\ ctx.buf = ctxpre.buf \o st.in.bytes
             /\ ctx.buf_size = ctxpre.buf_size + Len(st.in.bytes)
             /\ ctx.sm2_key = ctxpre.sm2_key
             /\ outlen = 0

\* C13 witness: sm2_decrypt_update has refused a chunk of 200 bytes on a
\* buffer of 200.
C13_Witness ==
    /\ StreamReturned({"sm2_decrypt_update"}) /\ ~st.outnull
    /\ ret = 0 - 1 /\ ctx.buf_size = 200 /\ Len(st.in.bytes) = 200

\* C14: with out == NULL an update call reports *outlen = 0 and a finish call
\* reports SM2_MAX_CIPHERTEXT_SIZE when encrypting and SM2_MAX_PLAINTEXT_SIZE
\* when decrypting; both return 1 and leave the context as it was.
C14_NullOutputQueries ==
    (StreamReturned(UpdateFns \cup FinishFns) /\ st.outnull) =>
        /\ ret = 1
        /\ ctx = ctxpre
        /\ outlen = IF st.fn \in UpdateFns THEN 0
                    ELSE IF st.fn = "sm2_encrypt_finish" THEN SM2_MAX_CIPHERTEXT_SIZE
                    ELSE SM2_MAX_PLAINTEXT_SIZE

\* C14 witness: sm2_decrypt_finish was asked for the size with data in in and
\* in the buffer.
C14_Witness ==
    /\ StreamReturned({"sm2_decrypt_finish"}) /\ st.outnull /\ ~st.in.null
    /\ ctx.buf_size > 0 /\ outlen = SM2_MAX_PLAINTEXT_SIZE

\* C15: a finish call with a non-NULL output, an empty buffer and no final
\* data (in NULL or inlen 0) returns -1 without calling the one-shot routine.
C15_EmptyStreamRejected ==
    (/\ st.fn \in FinishFns /\ ~st.outnull
     /\ op \in {st.fn, OneShotOf(st.dir)}
     /\ ctxpre.buf_size = 0
     /\ st.in.null \/ Len(st.in.bytes) = 0)
        => (pc = "done" /\ ret = 0 - 1 /\ op = st.fn)

\* C15 witness: sm2_encrypt_finish has refused inlen = 0 after two calls that
\* buffered nothing.
C15_Witness ==
    /\ StreamReturned({"sm2_encrypt_finish"}) /\ ~st.outnull
    /\ ~st.in.null /\ Len(st.in.bytes) = 0
    /\ ctxpre.buf_size = 0 /\ calls = 3 /\ ret = 0 - 1

\* C19: whatever update and finish calls were made on a context, buf_size
\* is at most the maximum of the direction and buf holds no byte beyond it.
C19_BufferBound ==
    (ctx # UnsetCtx) =>
        /\ 0 <= ctx.buf_size /\ ctx.buf_size <= DirectionMax
        /\ Len(ctx.buf) = ctx.buf_size

\* C19 witness: an update after a finish that had appended its chunk was
\* refused for lack of room.
C19_Witness ==
    /\ StreamReturned({"sm2_encrypt_update"}) /\ ret = 0 - 1
    /\ Len(chunks) = 2 /\ chunks[2].fn = "sm2_encrypt_finish"
    /\ ctx.buf_size = SM2_MAX_PLAINTEXT_SIZE - 1

\* C20 (as claimed): a finish call that returns -1 leaves buf and buf_size as
\* they were before the call.
C20_FinishErrorKeepsContext ==
    (StreamReturned(FinishFns) /\ ~st.outnull /\ ret = 0 - 1) =>
        (ctx.buf = ctxpre.buf /\ ctx.buf_size = ctxpre.buf_size)
====
